---------------------------- MODULE Spec2Model ----------------------------
(***************************************************************************)
(* A model of sorucoder/ebiten-sprite:                                     *)
(*   - asesprite.AsespriteSpriteSheet: Animation / AllAnimations and the   *)
(*     two caches (sub-images by frame position, animations by tag name);  *)
(*   - sprites.Sprite: the playback state machine (NewSprite,              *)
(*     SetAnimation, Start, Stop, Update).                                 *)
(* Pointers are modelled as indices into a heap (a sequence of objects);   *)
(* the nil pointer is Nil.  Durations and instants are in nanoseconds, as  *)
(* Go's time.Duration; instants count from an arbitrary epoch.             *)
(***************************************************************************)
EXTENDS Integers, Sequences, FiniteSets, TLC

\* ------------------------------------------------------------------ bounds

\* Number of frame records of a manifest.
MaxFrames == 2

\* Largest number of frame tags of a manifest.
MaxTags == 2

\* The instants fed to the sprite are 50 ms * k + {-1, 0, 1} ms, k = 0..MaxTick.
MaxTick == 9

\* Largest number of images drawn on the target surface.
MaxDraws == 2

\* --------------------------------------------------------------- constants

\* The nil pointer.
Nil == 0

\* time.Millisecond, in nanoseconds.
Millisecond == 1000000

\* ------------------------------------------------- the asesprite manifest

\* Tag names asked for; "nonexistent" is in no manifest.
TagNames == {"idle", "walk"}

Names == TagNames \cup {"nonexistent"}

\* The raw "duration" numbers of the manifest's frames (milliseconds in the
\* file), by 0-based frame position.
RawDuration(i) == <<100, 200, 150>>[(i % 3) + 1]

\* The "direction" strings of the manifest's tags, by position in the list.
TagDirection(k) == <<"forward", "reverse", "pingpong">>[((k - 1) % 3) + 1]

\* type frame: the atlas rectangle and the duration as json decodes it (an
\* integer n becomes the time.Duration n).
FrameRecord(i) ==
    [Frame |-> [X |-> 16 * i, Y |-> 0, Width |-> 16, Height |-> 16],
     Duration |-> RawDuration(i)]

\* type frameTag.  From and To are any indices json can hold; the model
\* takes them in 0..MaxFrames, which has ranges inside the frame list, ranges
\* running one past its end, and From > To.
FrameTags ==
    [Name : TagNames, From : 0..MaxFrames, To : 0..MaxFrames]

RECURSIVE TagLists(_)
TagLists(n) ==
    IF n = 0 THEN {<< >>}
    ELSE LET shorter == TagLists(n - 1)
         IN  shorter \cup
             {Append(l, [Name |-> t.Name, From |-> t.From, To |-> t.To,
                         Direction |-> TagDirection(Len(l) + 1)]) :
                 l \in {s \in shorter : Len(s) = n - 1}, t \in FrameTags}

\* type asespriteData: what NewSpritesheet decodes.
Manifests ==
    {[Frames |-> [i \in 1..MaxFrames |-> FrameRecord(i - 1)],
      Metadata |-> [FrameTags |-> l]] : l \in TagLists(MaxTags)}

\* ------------------------------------------------------------------- state

VARIABLES
    \* AsespriteSpriteSheet
    data,            \* the decoded manifest
    imageCache,      \* by frame position: pointer to the sub-image, or Nil
    animationCache,  \* function from the cached names to Animation pointers
    images,          \* heap: images[p] is the sub-image object with pointer p
    animations,      \* heap: animations[p] is the Animation with pointer p
    panicked,        \* a run-time panic ended the program
    ret,             \* the last call on the sheet: what it returned, whether
                     \* its name had resolved before, the sub-images it extracted
    firstReturned,   \* by name: the pointer its first successful lookup returned
    \* Sprite
    animation,       \* the bound Animation (an index of AnimationPool)
    frame,
    paused,
    repeat,
    last,
    Speed,           \* the float64 Speed, in halves (2 is 1.0)
    crashed,         \* a run-time panic in a Sprite method
    lastOp,          \* the name of the last Sprite operation
    pre,             \* frame and paused as they were before that operation,
                     \* and whether it was an Update as late as the whole
                     \* animation is long
    X,               \* the float64 fields hold whole numbers here
    Y,
    Origin,          \* the name of the Alignment the field holds
    Scale,
    Angle,
    Visible,
    options,         \* the DrawImageOptions: the GeoM as the calls made on
                     \* it since its Reset
    \* the surface Draw is given
    target,          \* how many images it was sent, and the last of them
    \* the path-based constructors
    built,           \* the constructor called, the files it found, and what
                     \* it returned
    \* the caller's clock
    clock            \* the time since the sprite's last transition

sheetVars ==
    <<data, imageCache, animationCache, images, animations, panicked, ret,
      firstReturned>>

spriteVars ==
    <<animation, frame, paused, repeat, last, Speed, crashed, lastOp, pre>>

presentationVars == <<X, Y, Origin, Scale, Angle, Visible, options>>

drawVars == <<presentationVars, target>>

vars == <<sheetVars, spriteVars, drawVars, built, clock>>

\* What a call on the sheet, and a call on the sprite's playback, leave alone.
besidesSheet == <<spriteVars, drawVars, built, clock>>

besidesSprite == <<sheetVars, drawVars, built, clock>>

\* --------------------------------------------------- AsespriteSpriteSheet

\* The error values.
NoError == [kind |-> "nil", name |-> ""]

AnimationNotFoundError(name) == [kind |-> "AnimationNotFound", name |-> name]

CastError == [kind |-> "cast", name |-> ""]

\* The mutable part of the sheet, as one value.
SheetState ==
    [imageCache |-> imageCache, animationCache |-> animationCache,
     images |-> images, animations |-> animations]

\* image.Rect(x, y, x+w, y+h) and spritesheet.image.SubImage(...) with the
\* cast to *ebiten.Image: a new image object over that rectangle.  The cast
\* succeeds for every rectangle (Ebitengine's SubImage returns *ebiten.Image).
SubImage(f) ==
    [ok |-> TRUE,
     image |-> [MinX |-> f.X, MinY |-> f.Y,
                MaxX |-> f.X + f.Width, MaxY |-> f.Y + f.Height]]

\* The index (1-based) of the first tag named `name`, or 0.
RECURSIVE FindTagFrom(_, _, _)
FindTagFrom(tags, k, name) ==
    IF k > Len(tags) THEN 0
    ELSE IF tags[k].Name = name THEN k
    ELSE FindTagFrom(tags, k + 1, name)

\* Mutant: the last tag named `name` wins.
FindTag_LastMatch(tags, name) ==
    LET ks == {k \in 1..Len(tags) : tags[k].Name = name}
    IN  IF ks = {} THEN 0 ELSE CHOOSE k \in ks : \A j \in ks : j <= k

FindTag(tags, name) == FindTagFrom(tags, 1, name)

\* Mutant: the image cache is not consulted; every frame is extracted anew.
RECURSIVE FramesLoop_IgnoresImageCache(_, _, _, _, _)
FramesLoop_IgnoresImageCache(d, st, i, to, frames) ==
    IF i > to THEN [st |-> st, frames |-> frames, status |-> "ok"]
    ELSE IF i < 0 \/ i >= Len(d.Frames)
    THEN [st |-> st, frames |-> frames, status |-> "panic"]
    ELSE
      LET f   == d.Frames[i + 1]
          sub == SubImage(f.Frame)
          st1 == [st EXCEPT !.images = Append(@, sub.image),
                            !.imageCache[i + 1] = Len(st.images) + 1]
      IN  FramesLoop_IgnoresImageCache(d, st1, i + 1, to,
            Append(frames,
                   [Image |-> st1.imageCache[i + 1],
                    Duration |-> Millisecond * f.Duration]))

\* The loop over i = tag.From .. tag.To, from position i on, with the frames
\* collected so far.  status is "ok", "panic" (index out of range) or "cast".
RECURSIVE FramesLoop(_, _, _, _, _)
FramesLoop(d, st, i, to, frames) ==
    IF i > to THEN [st |-> st, frames |-> frames, status |-> "ok"]
    ELSE IF i < 0 \/ i >= Len(d.Frames)
    THEN [st |-> st, frames |-> frames, status |-> "panic"]
    ELSE
      LET f   == d.Frames[i + 1]
          hit == st.imageCache[i + 1] # Nil
          sub == SubImage(f.Frame)
          st1 == IF hit THEN st
                 ELSE [st EXCEPT !.images = Append(@, sub.image),
                                 !.imageCache[i + 1] = Len(st.images) + 1]
          img == st1.imageCache[i + 1]
      IN  IF ~hit /\ ~sub.ok
          THEN [st |-> st, frames |-> frames, status |-> "cast"]
          ELSE FramesLoop(d, st1, i + 1, to,
                 Append(frames,
                        [Image |-> img, Duration |-> Millisecond * f.Duration]))

\* Animation(name) after a miss in the animation cache (lines 104-154).
AnimationMiss(d, st, name) ==
      LET tags == d.Metadata.FrameTags
          k    == FindTag(tags, name)
      IN
      IF k = 0
      THEN [st |-> st, animation |-> Nil, err |-> AnimationNotFoundError(name),
            panicked |-> FALSE]
      ELSE
        LET tag == tags[k] IN
        \* make([]*sprites.Frame, 0, n) panics for n < 0
        IF tag.To - tag.From + 1 < 0
        THEN [st |-> st, animation |-> Nil, err |-> NoError, panicked |-> TRUE]
        ELSE
          LET loop == FramesLoop(d, st, tag.From, tag.To, << >>) IN
          IF loop.status = "panic"
          THEN [st |-> loop.st, animation |-> Nil, err |-> NoError,
                panicked |-> TRUE]
          ELSE IF loop.status = "cast"
          THEN [st |-> loop.st, animation |-> Nil, err |-> CastError,
                panicked |-> FALSE]
          ELSE
            LET ptr == Len(loop.st.animations) + 1
                obj == [Frames |-> loop.frames, Direction |-> tag.Direction]
                c   == loop.st.animationCache
            IN  [st |-> [loop.st EXCEPT
                           !.animations = Append(@, obj),
                           !.animationCache =
                               [n \in DOMAIN c \cup {name} |->
                                   IF n = name THEN ptr ELSE c[n]]],
                 animation |-> ptr, err |-> NoError, panicked |-> FALSE]

\* Mutant: the animation cache is not consulted.
AnimationOp_NoCacheCheck(d, st, name) == AnimationMiss(d, st, name)

\* Mutant: a name that matches no tag is cached too (as nil).
AnimationOp_CachesNotFound(d, st, name) ==
    IF name \in DOMAIN st.animationCache
    THEN [st |-> st, animation |-> st.animationCache[name], err |-> NoError,
          panicked |-> FALSE]
    ELSE LET r == AnimationMiss(d, st, name)
             c == r.st.animationCache
         IN  IF r.err.kind = "AnimationNotFound"
             THEN [r EXCEPT !.st.animationCache =
                              [n \in DOMAIN c \cup {name} |->
                                  IF n = name THEN Nil ELSE c[n]]]
             ELSE r

\* Animation(name) on the sheet state st over the manifest d: the new state,
\* the returned pointer and error, and whether the call panicked.
AnimationOp(d, st, name) ==
    IF name \in DOMAIN st.animationCache
    THEN [st |-> st, animation |-> st.animationCache[name], err |-> NoError,
          panicked |-> FALSE]
    ELSE AnimationMiss(d, st, name)

\* The empty map.
EmptyMap == [n \in {} |-> Nil]

\* AllAnimations' loop over the tags, from the k-th on, with the map built so
\* far.
RECURSIVE AllAnimationsLoop(_, _, _, _)
AllAnimationsLoop(d, st, k, result) ==
    LET tags == d.Metadata.FrameTags IN
    IF k > Len(tags)
    THEN [st |-> st, result |-> result, ok |-> TRUE, err |-> NoError,
          panicked |-> FALSE]
    ELSE
      LET r == AnimationOp(d, st, tags[k].Name) IN
      IF r.panicked \/ r.err # NoError
      THEN [st |-> r.st, result |-> EmptyMap, ok |-> FALSE, err |-> r.err,
            panicked |-> r.panicked]
      ELSE AllAnimationsLoop(d, r.st, k + 1,
             [n \in DOMAIN result \cup {tags[k].Name} |->
                 IF n = tags[k].Name THEN r.animation ELSE result[n]])

\* Mutant: the loop over the tags skips the first one.
AllAnimationsOp_SkipsFirstTag(d, st) == AllAnimationsLoop(d, st, 2, EmptyMap)

AllAnimationsOp(d, st) == AllAnimationsLoop(d, st, 1, EmptyMap)

\* NewSpritesheet(decodedImage, jsonBytes) for bytes that decode to d.
NewSpritesheet(d) ==
    /\ data = d
    /\ imageCache = [i \in 1..Len(d.Frames) |-> Nil]
    /\ animationCache = EmptyMap
    /\ images = << >>
    /\ animations = << >>
    /\ panicked = FALSE
    /\ ret = [op |-> "NewSpritesheet", name |-> "", animation |-> Nil,
              result |-> EmptyMap, err |-> NoError, again |-> FALSE,
              extracted |-> 0]
    /\ firstReturned = [n \in Names |-> Nil]

SetSheet(st) ==
    /\ imageCache' = st.imageCache
    /\ animationCache' = st.animationCache
    /\ images' = st.images
    /\ animations' = st.animations

\* The names whose lookup has succeeded keep the pointer they got first.
Remember(st) ==
    [n \in Names |->
        IF firstReturned[n] = Nil /\ n \in DOMAIN st.animationCache
        THEN st.animationCache[n] ELSE firstReturned[n]]

\* A call of spritesheet.Animation(name).
Animation(name) ==
    /\ ~panicked
    /\ LET r == AnimationOp(data, SheetState, name) IN
       /\ SetSheet(r.st)
       /\ panicked' = r.panicked
       /\ ret' = [op |-> "Animation", name |-> name, animation |-> r.animation,
                  result |-> EmptyMap, err |-> r.err,
                  again |-> firstReturned[name] # Nil,
                  extracted |-> Len(r.st.images) - Len(images)]
       /\ firstReturned' = Remember(r.st)
    /\ UNCHANGED data

\* A call of spritesheet.AllAnimations().
AllAnimations ==
    /\ ~panicked
    /\ LET r == AllAnimationsOp(data, SheetState) IN
       /\ SetSheet(r.st)
       /\ panicked' = r.panicked
       /\ ret' = [op |-> "AllAnimations", name |-> "", animation |-> Nil,
                  result |-> r.result, err |-> r.err, again |-> FALSE,
                  extracted |-> Len(r.st.images) - Len(images)]
       /\ firstReturned' = Remember(r.st)
    /\ UNCHANGED data


\* ------------------------------------------------------------------ Sprite

\* The zero time.Time (at.IsZero()): an instant long before every other one.
ZeroTime == -1000000000

\* The instants handed to Start and Update.
Instants ==
    {Millisecond * (50 * k + d) : k \in 0..MaxTick, d \in {-1, 0, 1}}
        \ {-Millisecond}

\* The instants time.Now() returns.
NowInstants == {Millisecond * (50 * k) : k \in {j \in 0..MaxTick : j % 3 = 0}}

\* The values of the Speed field, in halves: 0.5, 1.0, 1.5, 2.0.
Speeds == {1, 2, 3, 4}

\* A *sprites.Frame with the given duration in milliseconds.
PoolFrame(img, ms) == [Image |-> img, Duration |-> Millisecond * ms]

\* The Animation objects sprites are bound to; a pointer is an index.  The
\* last one has no frames (a tag with From = To + 1 gives such an Animation).
AnimationPool ==
    << [Frames |-> <<PoolFrame(1, 100), PoolFrame(2, 200), PoolFrame(3, 150)>>,
        Direction |-> "forward"],
       [Frames |-> <<PoolFrame(4, 150)>>, Direction |-> "forward"],
       [Frames |-> <<PoolFrame(1, 50), PoolFrame(2, 100)>>,
        Direction |-> "reverse"],
       [Frames |-> << >>, Direction |-> "forward"] >>

AnimationPointers == 1..Len(AnimationPool)

\* len(sprite.animation.Frames)
NumFrames(a) == Len(AnimationPool[a].Frames)

\* The sprite's fields, as one value.
SpriteState ==
    [animation |-> animation, frame |-> frame, paused |-> paused,
     repeat |-> repeat, last |-> last, Speed |-> Speed, crashed |-> crashed]

\* Mutant: a new sprite waits for Start.
NewSpriteOp_StartsPaused(a, now) ==
    [animation |-> a, frame |-> 0, paused |-> TRUE, repeat |-> TRUE,
     last |-> now, Speed |-> 2, crashed |-> FALSE]

\* NewSprite(animation), with time.Now() = now.
NewSpriteOp(a, now) ==
    [animation |-> a, frame |-> 0, paused |-> FALSE, repeat |-> TRUE,
     last |-> now, Speed |-> 2, crashed |-> FALSE]

\* Mutant: the frame index survives the rebinding.
SetAnimationOp_KeepsFrame(s, a, rep, now) ==
    [s EXCEPT !.animation = a, !.paused = TRUE, !.repeat = rep, !.last = now]

\* Mutant: a playing sprite keeps playing the new animation.
SetAnimationOp_KeepsPlaying(s, a, rep, now) ==
    [s EXCEPT !.animation = a, !.frame = 0, !.repeat = rep, !.last = now]

\* sprite.SetAnimation(animation, repeat), with time.Now() = now.
SetAnimationOp(s, a, rep, now) ==
    [s EXCEPT !.animation = a, !.frame = 0, !.paused = TRUE, !.repeat = rep,
              !.last = now]

\* Mutant: the zero time is recorded as it is.
StartOp_RecordsZeroTime(s, at, now) ==
    IF ~s.paused THEN s
    ELSE [s EXCEPT !.frame = 0, !.last = at, !.paused = FALSE]

\* sprite.Start(at), with time.Now() = now.
StartOp(s, at, now) ==
    IF ~s.paused THEN s
    ELSE [s EXCEPT !.frame = 0,
                   !.last = IF at = ZeroTime THEN now ELSE at,
                   !.paused = FALSE]

\* Mutant: Stop pauses the sprite on the frame it shows.
StopOp_KeepsFrame(s, now) ==
    IF s.paused THEN s
    ELSE [s EXCEPT !.last = now, !.paused = TRUE]

\* sprite.Stop(), with time.Now() = now.
StopOp(s, now) ==
    IF s.paused THEN s
    ELSE [s EXCEPT !.frame = 0, !.last = now, !.paused = TRUE]

\* time.Duration(sprite.Speed): the conversion of a float64 to an integer
\* drops the fraction.
DurationOfSpeed(halves) == halves \div 2

\* Mutant: an Update that is two frames late skips a frame.
UpdateAdvance_CatchesUp(s, at) ==
    LET frames == AnimationPool[s.animation].Frames
        n      == Len(frames)
    IN
    IF s.frame >= n - 1
    THEN IF s.repeat
         THEN [s EXCEPT !.frame = 0, !.last = at]
         ELSE [s EXCEPT !.paused = TRUE, !.last = at]
    ELSE IF /\ s.frame + 2 <= n - 1
            /\ at - s.last >= (frames[s.frame + 1].Duration
                                  + frames[s.frame + 2].Duration)
                                 * DurationOfSpeed(s.Speed)
    THEN [s EXCEPT !.frame = s.frame + 2, !.last = at]
    ELSE [s EXCEPT !.frame = s.frame + 1, !.last = at]

\* Mutant: a repeating sprite stays on its last frame.
UpdateAdvance_HoldsLastFrame(s, at) ==
    IF s.frame >= NumFrames(s.animation) - 1
    THEN IF s.repeat THEN [s EXCEPT !.last = at]
         ELSE [s EXCEPT !.paused = TRUE, !.last = at]
    ELSE [s EXCEPT !.frame = s.frame + 1, !.last = at]

\* Mutant: the last frame wraps to the first whatever the repeat flag.
UpdateAdvance_IgnoresRepeat(s, at) ==
    IF s.frame >= NumFrames(s.animation) - 1
    THEN [s EXCEPT !.frame = 0, !.last = at]
    ELSE [s EXCEPT !.frame = s.frame + 1, !.last = at]

\* The transition of Update once the frame's time is over (lines 187-196).
UpdateAdvance(s, at) ==
    IF s.frame >= NumFrames(s.animation) - 1
    THEN IF s.repeat
         THEN [s EXCEPT !.frame = 0, !.last = at]
         ELSE [s EXCEPT !.paused = TRUE, !.last = at]
    ELSE [s EXCEPT !.frame = s.frame + 1, !.last = at]

\* Mutant: the frame advances only once more than its duration has elapsed.
UpdateOp_StrictlyLater(s, at) ==
    IF s.paused THEN s
    ELSE IF s.frame < 0 \/ s.frame >= NumFrames(s.animation)
    THEN [s EXCEPT !.crashed = TRUE]
    ELSE
      LET elapsed  == at - s.last
          duration == AnimationPool[s.animation].Frames[s.frame + 1].Duration
                        * DurationOfSpeed(s.Speed)
      IN  IF elapsed <= duration THEN s ELSE UpdateAdvance(s, at)

\* sprite.Update(at).
UpdateOp(s, at) ==
    IF s.paused THEN s
    ELSE IF s.frame < 0 \/ s.frame >= NumFrames(s.animation)
    THEN [s EXCEPT !.crashed = TRUE]       \* index out of range
    ELSE
      LET elapsed  == at - s.last
          duration == AnimationPool[s.animation].Frames[s.frame + 1].Duration
                        * DurationOfSpeed(s.Speed)
      IN  IF elapsed < duration THEN s ELSE UpdateAdvance(s, at)

\* The sum of the durations of the frames k.. of the animation a.
RECURSIVE DurationFrom(_, _)
DurationFrom(a, k) ==
    IF k > NumFrames(a) THEN 0
    ELSE AnimationPool[a].Frames[k].Duration + DurationFrom(a, k + 1)

\* Update(at) finds a playing sprite whose whole animation, at its speed,
\* is shorter than the time elapsed.
Overdue(s, at) ==
    /\ ~s.paused
    /\ NumFrames(s.animation) > 1
    /\ at - s.last >= DurationFrom(s.animation, 1) * DurationOfSpeed(s.Speed)
    /\ DurationOfSpeed(s.Speed) > 0

SetSpriteNoting(s, op, overdue) ==
    /\ animation' = s.animation
    /\ frame' = s.frame
    /\ paused' = s.paused
    /\ repeat' = s.repeat
    /\ last' = s.last
    /\ Speed' = s.Speed
    /\ crashed' = s.crashed
    /\ lastOp' = op
    /\ pre' = IF op = "NewSprite"
              THEN [frame |-> s.frame, paused |-> s.paused, overdue |-> FALSE]
              ELSE [frame |-> frame, paused |-> paused, overdue |-> overdue]

SetSprite(s, op) == SetSpriteNoting(s, op, FALSE)

\* The sprite under observation becomes a freshly constructed one.
NewSprite(a, now) ==
    /\ ~crashed
    /\ SetSprite(NewSpriteOp(a, now), "NewSprite")
    /\ X' = 0 /\ Y' = 0 /\ Origin' = "TopLeft" /\ Scale' = 1 /\ Angle' = 0
    /\ Visible' = TRUE
    /\ options' = [GeoM |-> << >>]

SetAnimation(a, rep, now) ==
    /\ ~crashed
    /\ SetSprite(SetAnimationOp(SpriteState, a, rep, now), "SetAnimation")

Start(at, now) ==
    /\ ~crashed
    /\ SetSprite(StartOp(SpriteState, at, now), "Start")

Stop(now) ==
    /\ ~crashed
    /\ SetSprite(StopOp(SpriteState, now), "Stop")

Update(at) ==
    /\ ~crashed
    /\ SetSpriteNoting(UpdateOp(SpriteState, at), "Update",
                       Overdue(SpriteState, at))

\* The caller assigns the exported field: sprite.Speed = halves / 2.
SetSpeed(halves) ==
    /\ ~crashed
    /\ SetSprite([SpriteState EXCEPT !.Speed = halves], "SetSpeed")

\* ---------------------------------------------------------------- drawing

\* The alignment functions.  Coordinates and extents are whole numbers and
\* the extents are even, so that width / 2 is the exact half.
Left(x, width) == x

Center(x, width) == x - (width \div 2)

Right(x, width) == x - width

Top(y, height) == y

Middle(y, height) == y - (height \div 2)

Bottom(y, height) == y - height

TopLeft(x, y, width, height) == <<Left(x, width), Top(y, height)>>

TopCenter(x, y, width, height) == <<Center(x, width), Top(y, height)>>

TopRight(x, y, width, height) == <<Right(x, width), Top(y, height)>>

MiddleLeft(x, y, width, height) == <<Left(x, width), Middle(y, height)>>

MiddleCenter(x, y, width, height) == <<Center(x, width), Middle(y, height)>>

MiddleRight(x, y, width, height) == <<Right(x, width), Middle(y, height)>>

BottomLeft(x, y, width, height) == <<Left(x, width), Bottom(y, height)>>

\* Mutant: the horizontal coordinate is computed from y and the height.
BottomMiddle_FromY(x, y, width, height) ==
    <<Middle(y, height), Bottom(y, height)>>

BottomMiddle(x, y, width, height) == <<Middle(x, width), Bottom(y, height)>>

BottomRight(x, y, width, height) == <<Right(x, width), Bottom(y, height)>>

\* The names of the Alignment values.
Alignments ==
    {"TopLeft", "TopCenter", "TopRight", "MiddleLeft", "MiddleCenter",
     "MiddleRight", "BottomLeft", "BottomMiddle", "BottomRight"}

\* The call sprite.Origin(x, y, width, height), the field holding the
\* Alignment named o.
CallAlignment(o, x, y, width, height) ==
    CASE o = "TopLeft"      -> TopLeft(x, y, width, height)
      [] o = "TopCenter"    -> TopCenter(x, y, width, height)
      [] o = "TopRight"     -> TopRight(x, y, width, height)
      [] o = "MiddleLeft"   -> MiddleLeft(x, y, width, height)
      [] o = "MiddleCenter" -> MiddleCenter(x, y, width, height)
      [] o = "MiddleRight"  -> MiddleRight(x, y, width, height)
      [] o = "BottomLeft"   -> BottomLeft(x, y, width, height)
      [] o = "BottomMiddle" -> BottomMiddle(x, y, width, height)
      [] o = "BottomRight"  -> BottomRight(x, y, width, height)

\* frame.Image.Bounds() of the images of the pool.
ImageBounds(img) ==
    IF img = 4 THEN [Dx |-> 16, Dy |-> 8] ELSE [Dx |-> 10, Dy |-> 20]

\* The values the caller assigns to X, Y, Scale and Angle.
Placements ==
    {[X |-> 0, Y |-> 0, Scale |-> 1, Angle |-> 0],
     [X |-> 100, Y |-> 100, Scale |-> 1, Angle |-> 0],
     [X |-> 40, Y |-> 60, Scale |-> 2, Angle |-> 1]}

\* A call on a GeoM.
GeoMCall(op, a, b) == [op |-> op, a |-> a, b |-> b]

\* new(ebiten.DrawImageOptions)
NewOptions == [GeoM |-> << >>]

\* A surface nothing was drawn on.
EmptyTarget == [draws |-> 0, image |-> Nil, options |-> NewOptions]

\* target.DrawImage(image, opts)
DrawImage(tgt, image, opts) ==
    [draws |-> tgt.draws + 1, image |-> image, options |-> opts]

\* The sprite's exported fields besides Speed, and its options, as one value.
Presentation ==
    [X |-> X, Y |-> Y, Origin |-> Origin, Scale |-> Scale, Angle |-> Angle,
     Visible |-> Visible, options |-> options]

\* Mutant: a hidden sprite is drawn too.
DrawOp_DrawsHidden(s, p, tgt) ==
    IF s.frame < 0 \/ s.frame >= NumFrames(s.animation)
    THEN [s |-> [s EXCEPT !.crashed = TRUE], p |-> p, target |-> tgt]
    ELSE
      LET fr     == AnimationPool[s.animation].Frames[s.frame + 1]
          bounds == ImageBounds(fr.Image)
          draw   == CallAlignment(p.Origin, p.X, p.Y,
                                  bounds.Dx * p.Scale, bounds.Dy * p.Scale)
          opts   == [GeoM |-> <<GeoMCall("Scale", p.Scale, p.Scale),
                                GeoMCall("Translate", draw[1], draw[2]),
                                GeoMCall("Rotate", p.Angle, 0)>>]
      IN  [s |-> s, p |-> [p EXCEPT !.options = opts],
           target |-> DrawImage(tgt, fr.Image, opts)]

\* sprite.Draw(target): the sprite s with the presentation p, the surface tgt.
DrawOp(s, p, tgt) ==
    IF ~p.Visible THEN [s |-> s, p |-> p, target |-> tgt]
    ELSE IF s.frame < 0 \/ s.frame >= NumFrames(s.animation)
    THEN [s |-> [s EXCEPT !.crashed = TRUE], p |-> p, target |-> tgt]
    ELSE
      LET fr         == AnimationPool[s.animation].Frames[s.frame + 1]
          bounds     == ImageBounds(fr.Image)
          width      == bounds.Dx
          height     == bounds.Dy
          drawWidth  == width * p.Scale
          drawHeight == height * p.Scale
          draw       == CallAlignment(p.Origin, p.X, p.Y, drawWidth, drawHeight)
          opts       == [GeoM |-> <<GeoMCall("Scale", p.Scale, p.Scale),
                                    GeoMCall("Translate", draw[1], draw[2]),
                                    GeoMCall("Rotate", p.Angle, 0)>>]
      IN  [s |-> s, p |-> [p EXCEPT !.options = opts],
           target |-> DrawImage(tgt, fr.Image, opts)]

SetPresentation(p) ==
    /\ X' = p.X
    /\ Y' = p.Y
    /\ Origin' = p.Origin
    /\ Scale' = p.Scale
    /\ Angle' = p.Angle
    /\ Visible' = p.Visible
    /\ options' = p.options

Draw ==
    /\ ~crashed
    /\ target.draws < MaxDraws
    /\ LET r == DrawOp(SpriteState, Presentation, target) IN
       /\ SetSprite(r.s, "Draw")
       /\ SetPresentation(r.p)
       /\ target' = r.target

\* The caller assigns the exported fields: where and how large the sprite
\* is drawn, the corner it is anchored at, whether it is shown.
Place(pl) ==
    /\ ~crashed
    /\ SetSprite(SpriteState, "Assign")
    /\ SetPresentation([Presentation EXCEPT !.X = pl.X, !.Y = pl.Y,
                                            !.Scale = pl.Scale,
                                            !.Angle = pl.Angle])

SetOrigin(o) ==
    /\ ~crashed
    /\ SetSprite(SpriteState, "Assign")
    /\ SetPresentation([Presentation EXCEPT !.Origin = o])

SetVisible(b) ==
    /\ ~crashed
    /\ SetSprite(SpriteState, "Assign")
    /\ SetPresentation([Presentation EXCEPT !.Visible = b])

\* ---------------------------------------------------- path constructors

Constructors == {"NewSpritesheetFromFiles", "NewSpritesheetFromFileSystem"}

\* What is at imagePath: an image that loads, or nothing.
ImageFiles == {"image", "missing"}

\* What is at jsonPath: a manifest, a file that does not decode, or nothing.
JSONFiles == {"manifest", "malformed", "missing"}

\* The nil error, and the three failures of the calls the constructors make.
NilError == "nil"

OpenImageFailure == "image file not loaded"

OpenJSONFailure == "JSON file not opened"

DecodeFailure == "JSON not decoded"

\* fmt.Errorf(msg + ": %w", cause): an error whose Unwrap() is cause.
Errorf(msg, cause) == [nil |-> FALSE, msg |-> msg, cause |-> cause]

\* The pair a constructor returns: (nil, err) or (spritesheet, nil).
Failed(err) == [sheet |-> FALSE, err |-> err]

Succeeded == [sheet |-> TRUE,
              err |-> [nil |-> TRUE, msg |-> "", cause |-> NilError]]

\* NewSpritesheetFromFiles(imagePath, jsonPath), by what is at the paths.
NewSpritesheetFromFiles(image, json) ==
    LET errOpenImage == IF image = "missing" THEN OpenImageFailure
                        ELSE NilError
        errReadJSON  == IF json = "missing" THEN OpenJSONFailure
                        ELSE NilError
        errDecode    == IF json = "malformed" THEN DecodeFailure
                        ELSE NilError
    IN  IF errOpenImage # NilError
        THEN Failed(Errorf("failed to open image file", errOpenImage))
        ELSE IF errReadJSON # NilError
        THEN Failed(Errorf("failed to read Asesprite JSON file", errOpenImage))
        ELSE IF errDecode # NilError
        THEN Failed(Errorf("failed to decode Asesprite JSON data", errDecode))
        ELSE Succeeded

\* NewSpritesheetFromFileSystem(filesystem, imagePath, jsonPath), by what
\* the file system has at the paths.
NewSpritesheetFromFileSystem(image, json) ==
    LET errOpenImage == IF image = "missing" THEN OpenImageFailure
                        ELSE NilError
        errReadJSON  == IF json = "missing" THEN OpenJSONFailure
                        ELSE NilError
        errDecode    == IF json = "malformed" THEN DecodeFailure
                        ELSE NilError
    IN  IF errOpenImage # NilError
        THEN Failed(Errorf("failed to open image file", errOpenImage))
        ELSE IF errReadJSON # NilError
        THEN Failed(Errorf("failed to read Asesprite JSON file", errOpenImage))
        ELSE IF errDecode # NilError
        THEN Failed(Errorf("failed to decode Asesprite JSON data", errDecode))
        ELSE Succeeded

\* The call of the constructor ctor, and what it returned.
Built(ctor, image, json) ==
    LET r == IF ctor = "NewSpritesheetFromFiles"
             THEN NewSpritesheetFromFiles(image, json)
             ELSE NewSpritesheetFromFileSystem(image, json)
    IN  [ctor |-> ctor, image |-> image, json |-> json,
         sheet |-> r.sheet, err |-> r.err]

\* ------------------------------------------------------ the caller's clock

\* The animations of the pool that have frames.
NonEmptyAnimations == {a \in AnimationPointers : NumFrames(a) > 0}

\* The step of the clock, and the longest time the clock shows.
ClockStep == 50 * Millisecond

ClockEnd == MaxTick * ClockStep

\* Time passes.
Elapse ==
    /\ clock < ClockEnd
    /\ clock' = clock + ClockStep
    /\ UNCHANGED <<sheetVars, spriteVars, drawVars, built>>

\* sprite.Update(at) at the time the clock shows.  Update reads at and last
\* only in at.Sub(sprite.last), so the epoch is moved to the sprite's last
\* transition after the call: last stays 0 and the clock shows the time
\* since then.
UpdateNow ==
    /\ ~crashed
    /\ LET at == last + clock
           t  == UpdateOp(SpriteState, at)
       IN  /\ SetSpriteNoting([t EXCEPT !.last = 0], "Update",
                              Overdue(SpriteState, at))
           /\ clock' = at - t.last
    /\ UNCHANGED <<sheetVars, drawVars, built>>

\* ---------------------------------------------------------- specifications

\* The sprite the sheet's specification leaves alone.
IdleSprite ==
    /\ animation = 1 /\ frame = 0 /\ paused = FALSE /\ repeat = TRUE
    /\ last = 0 /\ Speed = 2 /\ crashed = FALSE /\ lastOp = "NewSprite"
    /\ pre = [frame |-> 0, paused |-> FALSE, overdue |-> FALSE]

\* A sprite's presentation as NewSprite leaves it, and a surface nothing was
\* drawn on.
IdleDraw ==
    /\ X = 0 /\ Y = 0 /\ Origin = "TopLeft" /\ Scale = 1 /\ Angle = 0
    /\ Visible = TRUE /\ options = NewOptions
    /\ target = EmptyTarget

\* The sheet of the other specifications came from existing files.
IdleLoad == built = Built("NewSpritesheetFromFiles", "image", "manifest")

IdleClock == clock = 0

\* The sheet the sprite's specification leaves alone.
IdleSheet == NewSpritesheet(CHOOSE d \in Manifests : d.Metadata.FrameTags = << >>)

\* A spritesheet over any manifest, and the calls made on it.
SheetInit ==
    /\ \E d \in Manifests : NewSpritesheet(d)
    /\ IdleSprite /\ IdleDraw /\ IdleLoad /\ IdleClock

SheetNext ==
    \/ \E name \in Names : Animation(name) /\ UNCHANGED besidesSheet
    \/ AllAnimations /\ UNCHANGED besidesSheet

SheetSpec == SheetInit /\ [][SheetNext]_vars

\* A sprite over any animation of the pool, and the calls made on it.
SpriteInit ==
    /\ IdleSheet /\ IdleDraw /\ IdleLoad /\ IdleClock
    /\ \E a \in AnimationPointers, now \in NowInstants :
          /\ animation = a /\ frame = 0 /\ paused = FALSE /\ repeat = TRUE
          /\ last = now /\ Speed = 2 /\ crashed = FALSE
          /\ lastOp = "NewSprite"
          /\ pre = [frame |-> 0, paused |-> FALSE, overdue |-> FALSE]

SpriteNext ==
    \/ \E a \in AnimationPointers, now \in NowInstants :
          NewSprite(a, now) /\ UNCHANGED <<sheetVars, target, built, clock>>
    \/ \E a \in AnimationPointers, rep \in BOOLEAN, now \in NowInstants :
          SetAnimation(a, rep, now) /\ UNCHANGED besidesSprite
    \/ \E at \in Instants \cup {ZeroTime} :
          \* time.Now() is read only for the zero time
          \E now \in (IF at = ZeroTime THEN NowInstants ELSE {at}) :
             Start(at, now) /\ UNCHANGED besidesSprite
    \/ \E now \in NowInstants : Stop(now) /\ UNCHANGED besidesSprite
    \/ \E at \in Instants \cup {ZeroTime} : Update(at) /\ UNCHANGED besidesSprite
    \/ \E halves \in Speeds : SetSpeed(halves) /\ UNCHANGED besidesSprite

SpriteSpec == SpriteInit /\ [][SpriteNext]_vars

\* A sprite that is drawn, between calls that change what Draw reads.
DrawAnimations == {1, 2, 4}

DrawInstant == 150 * Millisecond

DrawInit ==
    /\ IdleSheet /\ IdleDraw /\ IdleLoad /\ IdleClock
    /\ \E a \in DrawAnimations :
          /\ animation = a /\ frame = 0 /\ paused = FALSE /\ repeat = TRUE
          /\ last = 0 /\ Speed = 2 /\ crashed = FALSE
          /\ lastOp = "NewSprite"
          /\ pre = [frame |-> 0, paused |-> FALSE, overdue |-> FALSE]

DrawNext ==
    \/ \E a \in DrawAnimations :
          NewSprite(a, 0) /\ UNCHANGED <<sheetVars, target, built, clock>>
    \/ Update(DrawInstant) /\ UNCHANGED besidesSprite
    \/ Draw /\ UNCHANGED <<sheetVars, built, clock>>
    \/ \E pl \in Placements :
          Place(pl) /\ UNCHANGED <<sheetVars, target, built, clock>>
    \/ \E o \in Alignments :
          SetOrigin(o) /\ UNCHANGED <<sheetVars, target, built, clock>>
    \/ \E b \in BOOLEAN :
          SetVisible(b) /\ UNCHANGED <<sheetVars, target, built, clock>>

DrawSpec == DrawInit /\ [][DrawNext]_vars

\* A path-based constructor is called on any files; the calls on the sheet
\* it returns, if it returns one.  Without a sheet the sheet's variables
\* hold the values of a sheet without tags, and no call is made.
LoadInit ==
    /\ \E ctor \in Constructors, image \in ImageFiles, json \in JSONFiles :
          /\ built = Built(ctor, image, json)
          /\ IF built.sheet THEN \E d \in Manifests : NewSpritesheet(d)
                            ELSE IdleSheet
    /\ IdleSprite /\ IdleDraw /\ IdleClock

LoadNext ==
    \/ \E name \in Names :
          built.sheet /\ Animation(name) /\ UNCHANGED besidesSheet
    \/ built.sheet /\ AllAnimations /\ UNCHANGED besidesSheet

LoadSpec == LoadInit /\ [][LoadNext]_vars

\* A playing sprite at the start of a non-empty animation, at speed 1, and
\* nothing but the passing of time and Update calls.
ProgressInit ==
    /\ IdleSheet /\ IdleDraw /\ IdleLoad /\ IdleClock
    /\ \E a \in NonEmptyAnimations, rep \in BOOLEAN :
          /\ animation = a /\ frame = 0 /\ paused = FALSE /\ repeat = rep
          /\ last = 0 /\ Speed = 2 /\ crashed = FALSE
          /\ lastOp = "Start"
          /\ pre = [frame |-> 0, paused |-> TRUE, overdue |-> FALSE]

ProgressNext ==
    \/ Elapse
    \/ UpdateNow

\* Time passes as long as the clock can show it, and an Update that changes
\* the sprite is not put off forever.
ProgressSpec ==
    ProgressInit /\ [][ProgressNext]_vars
        /\ WF_vars(Elapse) /\ WF_vars(UpdateNow)

\* ------------------------------------------------- claims about the sheet

\* The names of the manifest's tags.
ManifestTagNames ==
    {data.Metadata.FrameTags[k].Name : k \in 1..Len(data.Metadata.FrameTags)}

\* C1: once Animation(name) has succeeded for a name, every later call of
\* Animation with that name succeeds, returns the pointer the first call
\* returned, extracts no sub-image, and leaves the animation cache, the image
\* cache and both heaps as they are.
C1_AnimationIdempotent ==
    \A name \in Names :
       firstReturned[name] # Nil =>
          LET r == AnimationOp(data, SheetState, name) IN
          /\ ~r.panicked
          /\ r.err = NoError
          /\ r.animation = firstReturned[name]
          /\ Len(r.st.images) = Len(images)
          /\ r.st.animationCache = animationCache
          /\ r.st.imageCache = imageCache
          /\ r.st = SheetState

\* C1 witness: a second successful Animation call for a name whose animation
\* has frames has returned.
C1_Witness ==
    /\ ret.op = "Animation" /\ ret.again /\ ret.err = NoError
    /\ ret.animation = firstReturned[ret.name]
    /\ ret.extracted = 0
    /\ Len(animations[ret.animation].Frames) = 2

\* The atlas rectangle of the manifest frame at 0-based position i.
ManifestRect(i) ==
    LET f == data.Frames[i + 1].Frame
    IN  [MinX |-> f.X, MinY |-> f.Y, MaxX |-> f.X + f.Width,
         MaxY |-> f.Y + f.Height]

\* Animation(tag.Name) returns, without error, an Animation that is the
\* tag's: to - from + 1 >= 1 frames, the i-th the sub-image of the manifest
\* frame from + i with its duration in milliseconds, and the tag's direction.
ReturnsAnimationOfTag(tag) ==
    LET r == AnimationOp(data, SheetState, tag.Name) IN
    /\ ~r.panicked
    /\ r.err = NoError
    /\ r.animation \in 1..Len(r.st.animations)
    /\ LET a == r.st.animations[r.animation] IN
       /\ Len(a.Frames) = tag.To - tag.From + 1
       /\ Len(a.Frames) >= 1
       /\ \A i \in 0..(tag.To - tag.From) :
             /\ a.Frames[i + 1].Image \in 1..Len(r.st.images)
             /\ r.st.images[a.Frames[i + 1].Image] = ManifestRect(tag.From + i)
             /\ a.Frames[i + 1].Duration =
                   RawDuration(tag.From + i) * Millisecond
       /\ a.Direction = tag.Direction

ValidRange(tag) ==
    0 <= tag.From /\ tag.From <= tag.To /\ tag.To < Len(data.Frames)

\* C2 as stated: for EVERY tag of the manifest with a valid range,
\* Animation(tag.name) returns that tag's frames, durations and direction.
C2_Original ==
    ~panicked =>
       \A k \in 1..Len(data.Metadata.FrameTags) :
          LET tag == data.Metadata.FrameTags[k]
          IN  ValidRange(tag) => ReturnsAnimationOfTag(tag)

\* C2, amended: for every tag of the manifest that is the first with its
\* name and has 0 <= from <= to < number of frames, Animation(tag.name)
\* returns a non-empty frame sequence of length to - from + 1 whose i-th
\* frame is the sub-image of manifest frame from + i with that frame's
\* duration in milliseconds, and whose Direction is the tag's.
C2_FirstTagAnimation ==
    ~panicked =>
       \A k \in 1..Len(data.Metadata.FrameTags) :
          LET tag == data.Metadata.FrameTags[k]
          IN  (/\ ValidRange(tag)
               /\ \A j \in 1..(k - 1) :
                     data.Metadata.FrameTags[j].Name # tag.Name)
              => ReturnsAnimationOfTag(tag)

\* C2 witness: a first Animation call for a tag of two frames has returned
\* its animation, in a manifest that has a second tag of that name.
C2_Witness ==
    /\ ret.op = "Animation" /\ ~ret.again /\ ret.err = NoError
    /\ ret.animation # Nil
    /\ Len(animations[ret.animation].Frames) = 2
    /\ Len(data.Metadata.FrameTags) = 2
    /\ data.Metadata.FrameTags[1].Name = ret.name
    /\ data.Metadata.FrameTags[2].Name = ret.name
    /\ animations[ret.animation].Direction = data.Metadata.FrameTags[1].Direction

\* C3: when AllAnimations succeeds, the keys of the map it returns are the
\* manifest's tag names, and each key maps to the pointer Animation(name)
\* returns: the one a call after AllAnimations returns, the one an earlier
\* call has returned, and the one a call just before AllAnimations would have
\* returned; the object is that of the first tag with the name.
C3_AllAnimationsMap ==
    LET r == AllAnimationsOp(data, SheetState) IN
    (~panicked /\ ~r.panicked /\ r.ok) =>
       /\ r.err = NoError
       /\ DOMAIN r.result = ManifestTagNames
       /\ \A name \in DOMAIN r.result :
             LET after  == AnimationOp(data, r.st, name)
                 before == AnimationOp(data, SheetState, name)
                 tag    == data.Metadata.FrameTags[
                              CHOOSE k \in 1..Len(data.Metadata.FrameTags) :
                                 /\ data.Metadata.FrameTags[k].Name = name
                                 /\ \A j \in 1..(k - 1) :
                                       data.Metadata.FrameTags[j].Name # name]
             IN  /\ r.result[name] # Nil
                 /\ after.animation = r.result[name]
                 /\ after.err = NoError
                 /\ firstReturned[name] # Nil =>
                       r.result[name] = firstReturned[name]
                 /\ AllAnimationsOp(data, before.st).result[name]
                       = before.animation
                 /\ r.st.animations[r.result[name]].Direction = tag.Direction
                 /\ Len(r.st.animations[r.result[name]].Frames)
                       = tag.To - tag.From + 1

\* C3 witness: AllAnimations has returned a map with both names, one of them
\* resolved by an earlier Animation call.
C3_Witness ==
    /\ ret.op = "AllAnimations" /\ ret.err = NoError /\ ~panicked
    /\ DOMAIN ret.result = TagNames
    /\ ManifestTagNames = TagNames
    /\ \A name \in TagNames : ret.result[name] = animationCache[name]
    /\ ret.extracted < Len(images)

\* C4: Animation(name) for a name that no tag of the manifest has returns
\* the AnimationNotFound error for that name and no Animation, and leaves the
\* animation cache, the image cache and the heaps as they are.
C4_UnknownName ==
    \A name \in Names \ ManifestTagNames :
       LET r == AnimationOp(data, SheetState, name) IN
       /\ ~r.panicked
       /\ r.err = AnimationNotFoundError(name)
       /\ r.animation = Nil
       /\ r.st.animationCache = animationCache
       /\ r.st.imageCache = imageCache
       /\ r.st = SheetState

\* C4 witness: a lookup of an unknown name has failed on a sheet whose caches
\* are not empty.
C4_Witness ==
    /\ ret.op = "Animation" /\ ret.name = "nonexistent"
    /\ ret.err = AnimationNotFoundError("nonexistent")
    /\ ret.animation = Nil
    /\ DOMAIN animationCache # {}
    /\ \E i \in 1..Len(imageCache) : imageCache[i] # Nil

\* ------------------------------------------------ claims about the sprite

\* The instants a caller can pass.
CallInstants == Instants \cup {ZeroTime}

\* The duration of the frame s shows (s.frame is in range).
FrameDuration(s) == AnimationPool[s.animation].Frames[s.frame + 1].Duration

\* A playing sprite whose frame index is in range.
Playing(s) ==
    ~s.crashed /\ ~s.paused /\ 0 <= s.frame /\ s.frame < NumFrames(s.animation)

StoppedForGood(t) ==
    /\ t.paused
    /\ \A at2 \in CallInstants : UpdateOp(t, at2) = t
    /\ \A at2 \in CallInstants, now \in NowInstants :
          ~StartOp(t, at2, now).paused

\* C6 as stated: a playing sprite with repeat off on its last frame becomes
\* Stopped by an Update with elapsed >= that frame's duration.
C6_Original ==
    LET s == SpriteState IN
    (Playing(s) /\ ~repeat /\ frame = NumFrames(animation) - 1) =>
       \A at \in CallInstants :
          at - last >= FrameDuration(s) => StoppedForGood(UpdateOp(s, at))

\* C6, amended: a playing sprite with repeat off on its last frame that
\* receives Update(at) with elapsed >= that frame's duration multiplied by
\* its Speed becomes Stopped (paused = true) with its frame index unchanged;
\* no Update, at any time, changes a Stopped sprite, and Start makes it play.
C6_StopsAtEnd ==
    LET s == SpriteState IN
    /\ (Playing(s) /\ ~repeat /\ frame = NumFrames(animation) - 1) =>
          \A at \in CallInstants :
             \* Speed is in halves and the durations are even numbers of
             \* nanoseconds: elapsed >= duration * Speed
             at - last >= (FrameDuration(s) * Speed) \div 2 =>
                /\ StoppedForGood(UpdateOp(s, at))
                /\ UpdateOp(s, at).frame = frame
    /\ (~crashed /\ paused) =>
          \A at \in CallInstants : UpdateOp(s, at) = s

\* C6 witness: an Update has found the sprite Stopped on the last frame of
\* the three-frame animation, where the end of the animation left it.
C6_Witness ==
    /\ lastOp = "Update" /\ pre.paused /\ pre.frame = 2
    /\ paused /\ frame = 2 /\ animation = 1 /\ ~repeat /\ Speed = 4

\* C7: SetAnimation(animation, repeat) in any state leaves the sprite bound
\* to that animation with frame 0, paused, and the repeat flag given; then
\* every Update leaves the sprite as it is, and Start makes it play.
C7_SetAnimationResets ==
    ~crashed =>
       \A a \in AnimationPointers, rep \in BOOLEAN, now \in NowInstants :
          LET t == SetAnimationOp(SpriteState, a, rep, now) IN
          /\ t.animation = a
          /\ t.frame = 0
          /\ t.paused
          /\ t.repeat = rep
          /\ \A at \in CallInstants : UpdateOp(t, at) = t
          /\ \A at \in CallInstants : ~StartOp(t, at, now).paused

\* C7 witness: SetAnimation has been called on a sprite playing frame 2 and
\* has left it Stopped at frame 0.
C7_Witness ==
    /\ lastOp = "SetAnimation" /\ pre.frame = 2 /\ ~pre.paused
    /\ frame = 0 /\ paused /\ ~repeat /\ animation = 3

\* C8: while the bound animation has frames, 0 <= frame < its number of
\* frames.
C8_FrameIndexValid ==
    NumFrames(animation) > 0 => (0 <= frame /\ frame < NumFrames(animation))

\* C8 witness: a sprite on frame 2 of the three-frame animation has been
\* rebound to the one-frame animation.
C8_Witness ==
    /\ lastOp = "SetAnimation" /\ pre.frame = 2
    /\ animation = 2 /\ frame = 0

\* C9 as stated: a Stopped sprite has frame index 0.
C9_StoppedAtFrameZero == (~crashed /\ paused) => frame = 0

\* C10: Start(at) on a playing sprite changes nothing; on a Stopped sprite
\* it sets frame to 0, last to at (to time.Now() for the zero time), paused
\* to false and nothing else, so that the next Update advances exactly when
\* its instant is at least the first frame's scaled duration after `at`
\* (it then records its own instant).
C10_Start ==
    LET s == SpriteState IN
    ~crashed =>
       \A at \in CallInstants, now \in NowInstants :
          LET t == StartOp(s, at, now)
              since == IF at = ZeroTime THEN now ELSE at
          IN  /\ ~paused => t = s
              /\ paused =>
                    /\ t = [s EXCEPT !.frame = 0, !.last = since,
                                     !.paused = FALSE]
                    /\ t.last # ZeroTime
                    /\ NumFrames(animation) > 0 =>
                          \A at2 \in Instants :
                             LET u == UpdateOp(t, at2)
                                 d == AnimationPool[animation].Frames[1]
                                         .Duration * DurationOfSpeed(Speed)
                             IN  /\ at2 - since < d => u = t
                                 /\ at2 - since >= d => u.last = at2

\* C10 witness: Start with the zero time has restarted a sprite that the
\* end of a non-repeating animation had left Stopped on frame 2.
C10_Witness ==
    /\ lastOp = "Start" /\ pre.paused /\ pre.frame = 2
    /\ ~paused /\ frame = 0 /\ last = 300 * Millisecond

\* C11: Stop() on a playing sprite, at any frame index, sets frame to 0,
\* paused to true and last to time.Now() and changes nothing else; on a
\* Stopped sprite it changes nothing.  The bound animation and the repeat
\* flag are never changed.
C11_Stop ==
    LET s == SpriteState IN
    ~crashed =>
       \A now \in NowInstants :
          LET t == StopOp(s, now) IN
          /\ ~paused => t = [s EXCEPT !.frame = 0, !.paused = TRUE,
                                      !.last = now]
          /\ paused => t = s
          /\ t.animation = animation
          /\ t.repeat = repeat

\* C11 witness: Stop has been called on a sprite playing frame 2.
C11_Witness ==
    /\ lastOp = "Stop" /\ pre.frame = 2 /\ ~pre.paused
    /\ frame = 0 /\ paused /\ animation = 1

\* C12: one Update(at) leaves the frame index as it is, or makes it frame + 1,
\* or makes it 0 from the last frame, however large at - last is.
C12_OneStepPerUpdate ==
    LET s == SpriteState
        n == NumFrames(animation)
    IN
    (~crashed /\ n > 0) =>
       \A at \in CallInstants :
          LET t == UpdateOp(s, at) IN
          \/ t.frame = frame
          \/ t.frame = frame + 1 /\ frame < n - 1
          \/ t.frame = 0 /\ frame = n - 1

\* C12 witness: an Update that came later than the whole three-frame
\* animation lasts has moved the sprite from frame 0 to frame 1.
C12_Witness ==
    /\ lastOp = "Update" /\ pre.overdue /\ pre.frame = 0
    /\ animation = 1 /\ frame = 1 /\ Speed = 2

\* C13 as stated: for every Speed, Update on a playing sprite does not
\* advance when elapsed < duration x Speed and advances (records `at`) when
\* elapsed >= duration x Speed.  Speed is in halves and the durations are
\* even numbers of nanoseconds, so duration x Speed is
\* (duration * Speed) \div 2.
C13_SpeedScaling ==
    LET s == SpriteState IN
    Playing(s) =>
       \A at \in Instants :
          LET t == UpdateOp(s, at)
              threshold == (FrameDuration(s) * Speed) \div 2
          IN  /\ at - last < threshold => t = s
              /\ at - last >= threshold => t.last = at

\* C18 as stated: Update(at) changes no field of a Stopped sprite, nor of a
\* playing one with elapsed < duration x Speed; with elapsed >= duration x
\* Speed it sets last to exactly `at`; it never changes the bound animation
\* or the repeat flag.  (Speed is in halves: duration x Speed is
\* (duration * Speed) \div 2.)
C18_UpdateEffect ==
    LET s == SpriteState IN
    ~crashed =>
       \A at \in CallInstants :
          LET t == UpdateOp(s, at) IN
          /\ paused => t = s
          /\ Playing(s) =>
                LET scaled == (FrameDuration(s) * Speed) \div 2 IN
                /\ at - last < scaled => t = s
                /\ at - last >= scaled => t.last = at
          /\ t.animation = animation
          /\ t.repeat = repeat

\* C20: the sprite NewSprite(animation) returns is playing at frame 0 with
\* repeat set, Speed 1.0 and last = the time of construction; Start(at)
\* leaves it as it is, whatever `at`, and Update advances it once the first
\* frame's duration has elapsed since construction.
C20_NewSprite ==
    /\ \A a \in AnimationPointers, now \in NowInstants :
          LET s == NewSpriteOp(a, now) IN
          /\ s.animation = a /\ s.frame = 0 /\ ~s.paused /\ s.repeat
          /\ s.last = now /\ s.Speed = 2
    /\ lastOp = "NewSprite" =>
          LET s == SpriteState
              n == NumFrames(animation)
          IN
          /\ frame = 0 /\ ~paused /\ repeat /\ Speed = 2 /\ ~crashed
          /\ last \in NowInstants
          /\ \A at \in CallInstants, now \in NowInstants :
                StartOp(s, at, now) = s
          /\ n > 0 =>
                \A at \in Instants :
                   LET t == UpdateOp(s, at) IN
                   /\ at - last < FrameDuration(s) => t = s
                   /\ at - last >= FrameDuration(s) =>
                         /\ t.frame = (IF n > 1 THEN 1 ELSE 0)
                         /\ t.last = at
                         /\ ~t.paused

\* C20 witness: a sprite has been constructed over the three-frame
\* animation at a time other than 0, and nothing has been called on it.
C20_Witness ==
    /\ lastOp = "NewSprite" /\ animation = 1 /\ last = 150 * Millisecond
    /\ frame = 0 /\ ~paused /\ repeat

\* C17: over any sequence of Animation and AllAnimations calls, the
\* sub-image of each manifest frame position is extracted at most once (the
\* heap holds at most one image per position, each in the slot of its
\* position); every frame of every Animation built holds the pointer in the
\* slot of its position, so that frames of two tags over one position hold
\* the identical image; and no call replaces a filled slot.
C17_SubImageCache ==
    LET positions == 1..Len(imageCache) IN
    /\ Len(images) <= Len(data.Frames)
    /\ \A i \in positions :
          /\ Cardinality({p \in 1..Len(images) :
                             images[p] = ManifestRect(i - 1)}) <= 1
          /\ imageCache[i] # Nil =>
                /\ imageCache[i] \in 1..Len(images)
                /\ images[imageCache[i]] = ManifestRect(i - 1)
    /\ \A p \in 1..Len(images) : \E i \in positions : imageCache[i] = p
    /\ \A a \in 1..Len(animations) :
          \A j \in 1..Len(animations[a].Frames) :
             LET img == animations[a].Frames[j].Image IN
             /\ img \in 1..Len(images)
             /\ \E i \in positions :
                   imageCache[i] = img /\ images[img] = ManifestRect(i - 1)
    /\ \A a, b \in 1..Len(animations) :
          \A j \in 1..Len(animations[a].Frames),
             k \in 1..Len(animations[b].Frames) :
             LET ia == animations[a].Frames[j].Image
                 ib == animations[b].Frames[k].Image
             IN  images[ia] = images[ib] => ia = ib
    /\ \A i \in positions :
          imageCache[i] # Nil =>
             /\ \A name \in Names :
                   AnimationOp(data, SheetState, name).st.imageCache[i]
                      = imageCache[i]
             /\ AllAnimationsOp(data, SheetState).st.imageCache[i]
                   = imageCache[i]

\* C17 witness: the first lookup of a second tag has returned an Animation
\* without extracting anything, every frame of its range being cached by the
\* lookup of another tag; the two Animations share a sub-image.
C17_Witness ==
    /\ ret.op = "Animation" /\ ~ret.again /\ ret.err = NoError
    /\ ret.extracted = 0
    /\ Len(animations) = 2
    /\ Len(animations[1].Frames) = 2
    /\ Len(animations[2].Frames) = 1
    /\ animations[2].Frames[1].Image = animations[1].Frames[2].Image
    /\ Len(images) = 2

\* C14: in every reachable state Draw leaves the sprite's animation, frame,
\* paused, repeat and last, and its X, Y, Origin, Scale, Speed, Angle and
\* Visible, as they are, whatever the target surface holds; a sprite whose
\* Visible is false sends nothing to the surface.
C14_DrawReadsOnly ==
    \A draws \in 0..MaxDraws :
       LET tgt == [target EXCEPT !.draws = draws]
           r   == DrawOp(SpriteState, Presentation, tgt)
       IN  /\ r.s.animation = animation
           /\ r.s.frame = frame
           /\ r.s.paused = paused
           /\ r.s.repeat = repeat
           /\ r.s.last = last
           /\ r.s.Speed = Speed
           /\ r.p.X = X
           /\ r.p.Y = Y
           /\ r.p.Origin = Origin
           /\ r.p.Scale = Scale
           /\ r.p.Angle = Angle
           /\ r.p.Visible = Visible
           /\ ~Visible => r.target = tgt

\* C14 witness: a sprite that has advanced to its second frame and was drawn
\* once is hidden, and the Draw that follows has sent nothing.
C14_Witness ==
    /\ lastOp = "Draw" /\ ~Visible /\ ~crashed
    /\ animation = 1 /\ frame = 1 /\ last = DrawInstant
    /\ target.draws = 1 /\ target.image = 1

\* The horizontal and the vertical rule an alignment is named after.
HorizontalRule ==
    [TopLeft |-> "left", TopCenter |-> "center", TopRight |-> "right",
     MiddleLeft |-> "left", MiddleCenter |-> "center", MiddleRight |-> "right",
     BottomLeft |-> "left", BottomMiddle |-> "center", BottomRight |-> "right"]

VerticalRule ==
    [TopLeft |-> "top", TopCenter |-> "top", TopRight |-> "top",
     MiddleLeft |-> "middle", MiddleCenter |-> "middle",
     MiddleRight |-> "middle",
     BottomLeft |-> "bottom", BottomMiddle |-> "bottom",
     BottomRight |-> "bottom"]

\* The point the rules of the alignment o give.
AlignedPoint(o, x, y, width, height) ==
    << CASE HorizontalRule[o] = "left"   -> x
         [] HorizontalRule[o] = "center" -> x - width \div 2
         [] HorizontalRule[o] = "right"  -> x - width,
       CASE VerticalRule[o] = "top"    -> y
         [] VerticalRule[o] = "middle" -> y - height \div 2
         [] VerticalRule[o] = "bottom" -> y - height >>

\* The (even) extents the alignments are applied to.
Extents == {0, 10, 20}

\* C15: each of the nine alignment functions returns (H(x, width),
\* V(y, height)), H being left (x), center (x - width/2) or right
\* (x - width) and V top (y), middle (y - height/2) or bottom (y - height) as
\* its name says; for width 10 and height 20 at (100, 100) TopLeft gives
\* (100, 100), MiddleCenter (95, 90), BottomRight (90, 80) and BottomMiddle
\* (95, 80); this for the Origin and the X and Y of every reachable sprite,
\* and the image a visible sprite has drawn is translated to the point its
\* Origin gives for its X, Y and scaled extents.
C15_Alignments ==
    /\ \A width \in Extents, height \in Extents :
          CallAlignment(Origin, X, Y, width, height)
             = AlignedPoint(Origin, X, Y, width, height)
    /\ TopLeft(100, 100, 10, 20) = <<100, 100>>
    /\ MiddleCenter(100, 100, 10, 20) = <<95, 90>>
    /\ BottomRight(100, 100, 10, 20) = <<90, 80>>
    /\ BottomMiddle(100, 100, 10, 20) = <<95, 80>>
    /\ (lastOp = "Draw" /\ Visible /\ ~crashed) =>
          LET bounds == ImageBounds(target.image)
              point  == AlignedPoint(Origin, X, Y, bounds.Dx * Scale,
                                     bounds.Dy * Scale)
          IN  /\ options.GeoM[2] = GeoMCall("Translate", point[1], point[2])
              /\ target.options = options

\* C15 witness: a sprite at (100, 100) with the Origin BottomMiddle, showing a
\* 10 x 20 image at scale 1, was drawn at (95, 80).
C15_Witness ==
    /\ lastOp = "Draw" /\ Visible /\ ~crashed
    /\ Origin = "BottomMiddle" /\ X = 100 /\ Y = 100 /\ Scale = 1
    /\ ImageBounds(target.image) = [Dx |-> 10, Dy |-> 20]
    /\ options.GeoM[2] = GeoMCall("Translate", 95, 80)

\* The failure a constructor called on these files runs into first.
FailureOf(image, json) ==
    IF image = "missing" THEN OpenImageFailure
    ELSE IF json = "missing" THEN OpenJSONFailure
    ELSE IF json = "malformed" THEN DecodeFailure
    ELSE NilError

\* C16: every failure of a path-based constructor is returned as an error
\* that carries the failure that caused it, and no spritesheet with it; in
\* particular the error wraps the JSON open failure, not a nil cause, when
\* the image loads and the JSON file cannot be opened.
C16_ErrorCarriesCause ==
    LET failure == FailureOf(built.image, built.json) IN
    failure # NilError =>
       /\ ~built.sheet
       /\ ~built.err.nil
       /\ built.err.cause # NilError
       /\ built.err.cause = failure

\* The step from one current frame to the next, in cyclic order; a sprite
\* that does not repeat never steps back.
CyclicStep ==
    \/ frame' = frame
    \/ frame < NumFrames(animation) - 1 /\ frame' = frame + 1
    \/ frame = NumFrames(animation) - 1 /\ repeat /\ frame' = 0

\* C19: a playing sprite with Speed 1 at the start of a non-empty animation
\* of n frames, under Update calls forever at times that grow: the current
\* frame changes in cyclic order 0, 1, .., n-1, 0 only; with repeat on,
\* every frame index 0..n-1 is the current frame infinitely often; with
\* repeat off every frame index is shown, in ascending order, and the sprite
\* ends Stopped (paused) for good.
C19_Progress ==
    /\ [][CyclicStep]_vars
    /\ [](frame \in 0..(NumFrames(animation) - 1))
    /\ \A i \in 0..2 :
          (i < NumFrames(animation)) =>
             /\ repeat => []<>(frame = i /\ ~paused)
             /\ ~repeat => <>(frame = i /\ ~paused)
    /\ ~repeat => <>[]paused

\* C19 witness: the Update that found a repeating sprite on the last of three
\* frames, that frame's time over, has made the first frame current again.
C19_Witness ==
    /\ lastOp = "Update" /\ repeat /\ ~paused /\ ~crashed
    /\ animation = 1 /\ pre.frame = 2 /\ frame = 0 /\ clock = 0

=============================================================================
